---------------------------- MODULE Spec2Model ----------------------------
(***************************************************************************)
(* Model of pyvty.Terminal (src/pyvty.py): the session automation core     *)
(* that drives a prompt-driven shell over a byte-stream transport.         *)
(*                                                                         *)
(* Text is modelled as a sequence of one-character strings.  Regular       *)
(* expressions are modelled by matchers that follow Python's re semantics  *)
(* for the patterns the source uses (leftmost match, alternatives in       *)
(* order, greedy quantifiers).  Time is counted in milliseconds relative   *)
(* to the deadline of the wait in progress: end_time holds                 *)
(* "end_time - time.time()" of the source.                                 *)
(***************************************************************************)
EXTENDS Integers, Sequences, FiniteSets, TLC

(***************************************************************************)
(* Bounds of the model and constants of the program.                       *)
(***************************************************************************)
\* retry budget the session is configured with (self.read_retries)
Retries == 2
\* response timeout the session is configured with, in ms (self.timeout)
SessionTimeout == 250
\* the most writes a run makes: the password loop of enable_privilege is cut here
MaxWrites == 6
\* the most reads a drain makes of a transport that has failed
MaxFaultReads == 2
\* the largest retry budget update_buffer is called with on its own
MaxRetries == 10
\* self.read_delay, in ms
read_delay == 2
\* the idle sleep of the wait loops, time.sleep(0.1), in ms
idle_sleep == 100
\* timeout of the echo wait in _send_main, in ms
echo_timeout == 3000
\* timeout of the prompt wait while banner mode is active, in ms
banner_timeout == 200
\* number of characters of the command's first line whose echo is awaited
echo_chars == 20

(***************************************************************************)
(* Characters and character classes.                                       *)
(***************************************************************************)
CR == "\r"
LF == "\n"
SP == " "

\* \w
WordChars ==
  {"a","b","c","d","e","f","g","h","i","j","k","l","m","n","o","p","q","r",
   "s","t","u","v","w","x","y","z","A","B","C","D","E","F","G","H","I","J",
   "K","L","M","N","O","P","Q","R","S","T","U","V","W","X","Y","Z","0","1",
   "2","3","4","5","6","7","8","9","_"}

\* [\w\-\:\.]
NameChars == WordChars \cup {"-", ":", "."}

\* [\w\(\)]
EnableChars == WordChars \cup {"(", ")"}

\* [\>\$\#\%]
Terminators == {">", "$", "#", "%"}

\* [\>\$\#]
EnableTerminators == {">", "$", "#"}

\* str.split() and str.lstrip() whitespace
Whitespace == {" ", "\t", "\n", "\r", "\f"}

(***************************************************************************)
(* String helpers.                                                         *)
(***************************************************************************)
\* the character at position i of s (1-based), "" outside s
At(s, i) == IF i >= 1 /\ i <= Len(s) THEN s[i] ELSE ""

\* s[i:] of Python with a 1-based i
From(s, i) == SubSeq(s, i, Len(s))

\* s[:i] of Python: the text before 1-based position i
Before(s, i) == SubSeq(s, 1, i - 1)

\* lit occurs in s at position i
LitAt(s, i, lit) ==
  /\ i >= 1
  /\ i + Len(lit) - 1 <= Len(s)
  /\ SubSeq(s, i, i + Len(lit) - 1) = lit

RECURSIVE RunEnd(_, _, _)
\* the first position >= i of s whose character is not in class
RunEnd(s, i, class) ==
  IF i <= Len(s) /\ s[i] \in class THEN RunEnd(s, i + 1, class) ELSE i

\* c? : greedy optional character
Opt(s, i, c) == IF At(s, i) = c THEN i + 1 ELSE i

\* $ : end of text, or before a line feed (any with MULTILINE, else the last)
AtEOL(s, i, multiline) ==
  \/ i = Len(s) + 1
  \/ /\ At(s, i) = LF
     /\ (multiline \/ i = Len(s))

\* ^ : start of text, or after a line feed with MULTILINE
AtBOL(s, i, multiline) ==
  \/ i = 1
  \/ /\ multiline
     /\ At(s, i - 1) = LF

RECURSIVE Flatten(_)
\* concatenation of a sequence of texts
Flatten(ss) == IF ss = <<>> THEN <<>> ELSE Head(ss) \o Flatten(Tail(ss))

\* the first position of lit in s, 0 when lit does not occur (str.find + 1)
Find(s, lit) ==
  IF \E i \in 1..Len(s) : LitAt(s, i, lit)
  THEN CHOOSE i \in 1..Len(s) :
         /\ LitAt(s, i, lit)
         /\ \A j \in 1..(i - 1) : ~LitAt(s, j, lit)
  ELSE 0

\* str.lstrip()
LStrip(s) == From(s, RunEnd(s, 1, Whitespace))

\* str.startswith(prefix)
StartsWith(s, prefix) == LitAt(s, 1, prefix)

RECURSIVE SplitFrom(_, _, _, _)
\* str.split(): the whitespace-separated tokens of s
SplitFrom(s, i, cur, acc) ==
  IF i > Len(s)
  THEN IF cur = <<>> THEN acc ELSE Append(acc, cur)
  ELSE IF s[i] \in Whitespace
       THEN SplitFrom(s, i + 1, <<>>, IF cur = <<>> THEN acc ELSE Append(acc, cur))
       ELSE SplitFrom(s, i + 1, Append(cur, s[i]), acc)

Split(s) == SplitFrom(s, 1, <<>>, <<>>)

RECURSIVE LinesFrom(_, _, _, _)
\* str.splitlines(): lines broken at \r\n, \r or \n, no trailing empty line
LinesFrom(s, i, cur, acc) ==
  IF i > Len(s)
  THEN IF cur = <<>> THEN acc ELSE Append(acc, cur)
  ELSE IF s[i] = CR /\ At(s, i + 1) = LF
       THEN LinesFrom(s, i + 2, <<>>, Append(acc, cur))
       ELSE IF s[i] \in {CR, LF}
            THEN LinesFrom(s, i + 1, <<>>, Append(acc, cur))
            ELSE LinesFrom(s, i + 1, Append(cur, s[i]), acc)

SplitLines(s) == LinesFrom(s, 1, <<>>, <<>>)

(***************************************************************************)
(* The regular expressions of the source.  Each matcher returns the        *)
(* position after the match that starts at i, or 0 when there is none.     *)
(***************************************************************************)
\* self.prompt:
\* [\r\n](\w[\w\-\:\.]+ ?(\(\w[\w\-\:\.]+\) ?)?[\>\$\#\%] ?)$
PromptEnd(s, i, multiline) ==
  LET b == RunEnd(s, i + 2, NameChars)
      c == Opt(s, b, SP)
      g == RunEnd(s, c + 2, NameChars)
      d == IF /\ At(s, c) = "("
              /\ At(s, c + 1) \in WordChars
              /\ g > c + 2
              /\ At(s, g) = ")"
           THEN Opt(s, g + 1, SP)
           ELSE c
      e == Opt(s, d + 1, SP)
  IN IF /\ At(s, i) \in {CR, LF}
        /\ At(s, i + 1) \in WordChars
        /\ b > i + 2
        /\ At(s, d) \in Terminators
        /\ AtEOL(s, e, multiline)
     THEN e
     ELSE 0

\* [Xx]rest : a word whose first letter may be upper or lower case
WordEnd(s, i, first, rest) ==
  IF At(s, i) \in first /\ LitAt(s, i + 1, rest)
  THEN i + 1 + Len(rest)
  ELSE 0

\* ^\w[\w\(\)]+ ?[\>\$\#] ?$
EnablePromptEnd(s, i, multiline) ==
  LET b == RunEnd(s, i + 1, EnableChars)
      c == Opt(s, b, SP)
      e == Opt(s, c + 1, SP)
  IN IF /\ AtBOL(s, i, multiline)
        /\ At(s, i) \in WordChars
        /\ b > i + 1
        /\ At(s, c) \in EnableTerminators
        /\ AtEOL(s, e, multiline)
     THEN e
     ELSE 0

\* [Pp]assword:? ?$
ChallengeEnd(s, i, multiline) ==
  LET a == WordEnd(s, i, {"P", "p"}, <<"a","s","s","w","o","r","d">>)
      e == Opt(s, Opt(s, a, ":"), SP)
  IN IF a # 0 /\ AtEOL(s, e, multiline) THEN e ELSE 0

\* # ?$
HashEnd(s, i, multiline) ==
  LET e == Opt(s, i + 1, SP)
  IN IF At(s, i) = "#" /\ AtEOL(s, e, multiline) THEN e ELSE 0

\* one alternative of a pattern, matched at position i
AltEnd(alt, s, i, multiline) ==
  CASE alt = "prompt" -> PromptEnd(s, i, multiline)
    [] alt = "username" -> WordEnd(s, i, {"U", "u"}, <<"s","e","r","n","a","m","e">>)
    [] alt = "login" -> WordEnd(s, i, {"L", "l"}, <<"o","g","i","n">>)
    [] alt = "name" -> WordEnd(s, i, {"N", "n"}, <<"a","m","e">>)
    [] alt = "password" -> WordEnd(s, i, {"P", "p"}, <<"a","s","s","w","o","r","d">>)
    [] alt = "auth_fail" ->
         WordEnd(s, i, {"A"}, <<"u","t","h","e","n","t","i","c","a","t","i","o","n",
                                " ","f","a","i","l","e","d">>)
    [] alt = "enable_prompt" -> EnablePromptEnd(s, i, multiline)
    [] alt = "challenge" -> ChallengeEnd(s, i, multiline)
    [] alt = "hash" -> HashEnd(s, i, multiline)

RECURSIVE MatchEnd(_, _, _, _)
\* a pattern a1|a2|... matched at position i: the first alternative that matches
MatchEnd(pattern, s, i, multiline) ==
  IF pattern = <<>>
  THEN 0
  ELSE LET e == AltEnd(Head(pattern), s, i, multiline)
       IN IF e # 0 THEN e ELSE MatchEnd(Tail(pattern), s, i, multiline)

\* regex.search(s): the leftmost match as [start, end), start = 0 when none
Search(pattern, s, multiline) ==
  IF \E i \in 1..Len(s) : MatchEnd(pattern, s, i, multiline) # 0
  THEN LET i == CHOOSE k \in 1..Len(s) :
                  /\ MatchEnd(pattern, s, k, multiline) # 0
                  /\ \A j \in 1..(k - 1) : MatchEnd(pattern, s, j, multiline) = 0
       IN [start |-> i, end |-> MatchEnd(pattern, s, i, multiline)]
  ELSE [start |-> 0, end |-> 0]

\* re.search(pattern, s) is not None
Matches(pattern, s, multiline) == Search(pattern, s, multiline).start # 0

\* the patterns of the source
prompt == <<"prompt">>
login_prompt == <<"username", "login", "name">>
password_prompt == <<"password">>
auth_fail == <<"auth_fail">>
enable_prompt == <<"enable_prompt", "challenge">>

\* early_exit of update_buffer: (?<![\>\$\#\%])([\>\$\#\%] ?$), not MULTILINE
early_exit(s) ==
  \E i \in 1..Len(s) :
    /\ s[i] \in Terminators
    /\ At(s, i - 1) \notin Terminators
    /\ AtEOL(s, Opt(s, i + 1, SP), FALSE)


(***************************************************************************)
(* Texts of the modelled sessions.                                         *)
(***************************************************************************)
username == <<"u">>
password == <<"p">>
enable_command == <<"e","n","a","b","l","e">>
disable_paging ==
  <<"t","e","r","m","i","n","a","l"," ","l","e","n","g","t","h"," ","0">>
preview_mark == <<"[","S","E","N","D","=","F","A","L","S","E","]"," ">>
banner_keyword == <<"b","a","n","n","e","r">>
\* banner stays False until a banner command is sent
NoBanner == ""

Txt_LoginPrompt == <<"\r","\n","U","s","e","r","n","a","m","e",":"," ">>
Txt_PasswordPrompt == <<"\r","\n","P","a","s","s","w","o","r","d",":"," ">>
Txt_Challenge == <<"P","a","s","s","w","o","r","d",":"," ">>
Txt_UserPrompt == <<"\r","\n","d","e","v",">">>
Txt_PrivPrompt == <<"\r","\n","d","e","v","#">>
Txt_AuthFail ==
  <<"\r","\n","%"," ","A","u","t","h","e","n","t","i","c","a","t","i","o","n",
    " ","f","a","i","l","e","d","\r","\n">>
Cmd_Show ==
  <<"s","h","o","w"," ","r","u","n","n","i","n","g","-","c","o","n","f","i","g",
    " ","x">>
Cmd_Banner == <<"b","a","n","n","e","r"," ","m","o","t","d"," ","#">>
Cmd_BannerClosed ==
  <<"b","a","n","n","e","r"," ","m","o","t","d"," ","#","h","e","l","l","o","#">>
Cmd_BannerSpaced ==
  <<"b","a","n","n","e","r"," ","m","o","t","d"," ","#"," ","h","i"," ","#">>
Cmd_BannerEnd == <<"#">>
\* a line of banner text that begins with the word banner
Cmd_BannerText ==
  <<"b","a","n","n","e","r"," ","i","s"," ","s","h","o","w","n"," ","t","o"," ",
    "u","s","e","r","s">>
Txt_ShowOut == <<"h","o","s","t","n","a","m","e"," ","d","e","v">>
Txt_BannerHint == <<"E","n","t","e","r"," ","T","E","X","T",".","\r","\n">>
Txt_ConfigPrompt == <<"\r","\n","d","e","v","(","c","o","n","f","i","g",")","#">>
Lit_Dev == <<"d","e","v">>
Lit_Missing == <<"z">>

(***************************************************************************)
(* State.                                                                  *)
(***************************************************************************)
VARIABLES
  \* Terminal attributes
  data_buffer,       \* self.data_buffer
  last_regex_match,  \* self.last_regex_match
  prompt_matched,    \* self.prompt_matched
  banner,            \* self.banner: NoBanner (False) or the delimiter character
  \* the transport and the device behind it
  pending,           \* text the next terminal._read() returns
  writes,            \* the texts handed to terminal._write(), in order
  script,            \* the responses the device has still to send
  \* control
  plan,              \* the calls the user of the session has still to make
  pc,                \* stack of code locations, innermost first
  command,           \* _send_main: command
  send_timeout,      \* _send_main: timeout
  send_result,       \* _send_main: result
  match,             \* read_until / read_until_regex: match
  timeout,           \* read_until / read_until_regex: timeout
  end_time,          \* read_until / read_until_regex: end_time - time.time()
  this_delay,        \* update_buffer: this_delay
  max_delay,         \* update_buffer: max_delay
  ub_result,         \* update_buffer: result
  output,            \* value returned by the last read_until / read_until_regex
  result,            \* how the last call of the plan ended
  lines,             \* the list returned by the last send
  \* history
  base,              \* data_buffer when the current wait or drain was entered
  chunks,            \* the non-empty reads of update_buffer since then
  old_match,         \* last_regex_match when the current wait was entered
  trace,             \* the writes, waits and wait outcomes so far
  late,              \* the call began, or one of its waits examined the buffer,
                     \* while text of the device was on its way
  delivered,         \* the responses the device has sent since the current call
  \* the transport adapter and the configuration of the session
  terminal,          \* self.terminal: "None" or the adapter object ("adapter")
  protocol,          \* self.protocol
  platform,          \* self.platform
  retries,           \* the retries update_buffer runs with
  fault,             \* the underlying transport raises on read and write
  opened,            \* number of adapters constructed
  closes             \* number of calls of the adapter's _close()

vars ==
  <<data_buffer, last_regex_match, prompt_matched, banner, pending, writes,
    script, plan, pc, command, send_timeout, send_result, match, timeout,
    end_time, this_delay, max_delay, ub_result, output, result, lines, base,
    chunks, old_match, trace, late, delivered, terminal, protocol, platform,
    retries, fault, opened, closes>>

lifecycle == <<terminal, protocol, platform, retries, fault, opened, closes>>
session == <<data_buffer, last_regex_match, prompt_matched, banner>>
send_locals == <<command, send_timeout, send_result>>
wait_locals == <<match, timeout, end_time>>
drain_locals == <<this_delay, max_delay, ub_result>>
history == <<base, chunks, old_match>>

(***************************************************************************)
(* The calls and the device behaviours the model ranges over.              *)
(***************************************************************************)
Op(name, text, pattern, t) ==
  [name |-> name, text |-> text, pattern |-> pattern, timeout |-> t]

Login == Op("login", <<>>, <<>>, SessionTimeout)
EnablePrivilege == Op("enable_privilege", <<>>, <<>>, SessionTimeout)
Send(text) == Op("send", text, prompt, SessionTimeout)
ReadUntil(text) == Op("read_until", text, <<>>, SessionTimeout)
ReadUntilRegex(pattern) == Op("read_until_regex", <<>>, pattern, SessionTimeout)
UpdateBuffer == Op("update_buffer", <<>>, <<>>, SessionTimeout)
SendPreview(text) == Op("send_preview", text, prompt, SessionTimeout)
Connect == Op("connect", <<>>, <<>>, SessionTimeout)
Close == Op("close", <<>>, <<>>, SessionTimeout)
\* the end of the body of connect()
ConnectEnd == Op("connect_end", <<>>, <<>>, SessionTimeout)

\* the device sends text once it has received `after` writes
Reply(after, text) == [after |-> after, text |-> text]

\* the connection fails once the device has received `after` writes: from then
\* on the underlying transport raises on read and on write
Disconnect == <<"disconnect">>
Fault(after) == Reply(after, Disconnect)

\* a session of the given protocol and platform, the calls made on it and the
\* behaviour of the device
Session(proto, plat, ops, replies) ==
  [protocol |-> proto, platform |-> plat, plan |-> ops, script |-> replies]

\* the calls are made on a connected telnet session
Scenario(ops, replies) == Session("telnet", "cisco", ops, replies)

Scenarios ==
  { \* login accepted
    Scenario(<<Login>>,
             <<Reply(0, Txt_LoginPrompt), Reply(1, Txt_PasswordPrompt),
               Reply(2, Txt_UserPrompt)>>),
    \* login refused: the login prompt comes back
    Scenario(<<Login>>,
             <<Reply(0, Txt_LoginPrompt), Reply(1, Txt_PasswordPrompt),
               Reply(2, Txt_LoginPrompt)>>),
    \* login refused: the failure phrase
    Scenario(<<Login>>,
             <<Reply(0, Txt_LoginPrompt), Reply(1, Txt_PasswordPrompt),
               Reply(2, Txt_AuthFail)>>),
    \* already logged in
    Scenario(<<Login>>, <<Reply(0, Txt_PrivPrompt)>>),
    \* elevation with two password challenges
    Scenario(<<EnablePrivilege>>,
             <<Reply(1, Txt_Challenge), Reply(2, Txt_PasswordPrompt),
               Reply(3, Txt_PrivPrompt)>>),
    \* elevation refused after one challenge
    Scenario(<<EnablePrivilege>>,
             <<Reply(1, Txt_Challenge), Reply(2, Txt_UserPrompt)>>),
    \* login followed by elevation
    Scenario(<<Login, EnablePrivilege>>,
             <<Reply(0, Txt_LoginPrompt), Reply(1, Txt_PasswordPrompt),
               Reply(2, Txt_UserPrompt), Reply(3, Txt_PasswordPrompt),
               Reply(4, Txt_PrivPrompt)>>),
    \* a command, echoed and answered in two pieces
    Scenario(<<Send(Cmd_Show)>>,
             <<Reply(1, Cmd_Show \o <<CR, LF>>),
               Reply(1, Txt_ShowOut \o Txt_PrivPrompt)>>),
    \* a command the device does not echo
    Scenario(<<Send(Cmd_Show)>>, <<Reply(1, Txt_ShowOut \o Txt_PrivPrompt)>>),
    \* the empty command
    Scenario(<<Send(<<>>)>>, <<Reply(1, Txt_PrivPrompt)>>),
    \* the empty command twice: the prompt of the first is in the buffer
    Scenario(<<Send(<<>>), Send(<<>>)>>,
             <<Reply(1, Txt_PrivPrompt), Reply(2, Txt_ConfigPrompt)>>),
    \* a device that is at its privileged prompt and then stays silent
    Scenario(<<Login, Send(Cmd_Show), EnablePrivilege>>,
             <<Reply(0, Txt_PrivPrompt)>>),
    \* a banner command, its text and its closing delimiter
    Scenario(<<Send(Cmd_Banner), Send(Cmd_BannerEnd)>>,
             <<Reply(1, Cmd_Banner \o <<CR, LF>> \o Txt_BannerHint),
               Reply(2, Cmd_BannerEnd \o Txt_ConfigPrompt)>>),
    \* self-closing banner commands
    Scenario(<<Send(Cmd_Banner), Send(Cmd_BannerText)>>,
             <<Reply(1, Cmd_Banner \o <<CR, LF>> \o Txt_BannerHint),
               Reply(2, Cmd_BannerText \o <<CR, LF>>)>>),
    Scenario(<<Send(Cmd_BannerClosed)>>,
             <<Reply(1, Cmd_BannerClosed \o Txt_ConfigPrompt)>>),
    Scenario(<<Send(Cmd_BannerSpaced)>>,
             <<Reply(1, Cmd_BannerSpaced \o Txt_ConfigPrompt)>>),
    \* the pattern matchers called directly, twice in a row
    Scenario(<<ReadUntilRegex(prompt), ReadUntilRegex(prompt)>>,
             <<Reply(0, Txt_ShowOut), Reply(0, Txt_PrivPrompt \o <<SP, LF>>)>>),
    Scenario(<<ReadUntilRegex(enable_prompt), ReadUntilRegex(enable_prompt)>>,
             <<Reply(0, <<"x">> \o Txt_Challenge),
               Reply(0, <<LF>> \o Lit_Dev \o <<"#">>)>>),
    Scenario(<<ReadUntilRegex(login_prompt), ReadUntilRegex(password_prompt)>>,
             <<Reply(0, Txt_LoginPrompt \o username \o Txt_PasswordPrompt)>>),
    Scenario(<<ReadUntil(Lit_Dev), ReadUntil(Lit_Dev)>>,
             <<Reply(0, Txt_ShowOut), Reply(0, Txt_PrivPrompt)>>),
    \* a literal that never comes, awaited after the prompt was matched
    Scenario(<<ReadUntilRegex(prompt), ReadUntil(Lit_Missing)>>,
             <<Reply(0, Txt_ShowOut \o Txt_PrivPrompt)>>),
    \* a preview, then the empty command
    Scenario(<<SendPreview(Cmd_Banner), Send(<<>>)>>, <<Reply(1, Txt_PrivPrompt)>>),
    \* the connection fails at some moment of a wait, a command or a login
    Session("telnet", "cisco", <<ReadUntil(Lit_Missing), Send(<<>>), Close>>,
            <<Fault(0)>>),
    Session("ssh", "cisco", <<ReadUntil(Lit_Missing), Send(<<>>), Close>>,
            <<Fault(0)>>),
    Scenario(<<Login>>,
             <<Reply(0, Txt_LoginPrompt), Reply(1, Txt_PasswordPrompt),
               Fault(1)>>),
    \* connect() for each protocol and platform
    Session("telnet", "cisco", <<Connect>>,
            <<Reply(0, Txt_UserPrompt), Reply(1, Txt_PrivPrompt),
              Reply(2, disable_paging \o Txt_PrivPrompt)>>),
    Session("telnet", "other", <<Connect>>,
            <<Reply(0, Txt_LoginPrompt), Reply(1, Txt_PasswordPrompt),
              Reply(2, Txt_UserPrompt)>>),
    Session("ssh", "cisco", <<Connect>>,
            <<Reply(0, Txt_UserPrompt), Reply(1, Txt_PrivPrompt),
              Reply(2, disable_paging \o Txt_PrivPrompt)>>),
    \* the session closed twice, used and connected again
    Session("ssh", "other", <<Connect, Connect, Close, Close, Send(<<>>), Connect>>,
            <<Reply(0, Txt_UserPrompt)>>),
    \* the buffer drained directly
    Scenario(<<UpdateBuffer, UpdateBuffer>>,
             <<Reply(0, Txt_ShowOut), Reply(0, Txt_UserPrompt),
               Reply(0, <<SP, CR, LF>>)>>) }

Init ==
  /\ data_buffer = <<>>
  /\ last_regex_match = <<>>
  /\ prompt_matched = FALSE
  /\ banner = NoBanner
  /\ pending = <<>>
  /\ writes = <<>>
  /\ pc = <<"idle">>
  /\ command = <<>>
  /\ send_timeout = 0
  /\ send_result = <<>>
  /\ match = <<>>
  /\ timeout = 0
  /\ end_time = 0
  /\ this_delay = 0
  /\ max_delay = 0
  /\ ub_result = FALSE
  /\ output = <<>>
  /\ result = "none"
  /\ lines = <<>>
  /\ base = <<>>
  /\ chunks = <<>>
  /\ old_match = <<>>
  /\ trace = <<>>
  /\ late = FALSE
  /\ delivered = <<>>
  /\ \E sc \in Scenarios :
       /\ plan = sc.plan
       /\ script = sc.script
       /\ protocol = sc.protocol
       /\ platform = sc.platform
       \* connect() has not run yet when it is the first call of the plan
       /\ terminal = IF Head(sc.plan).name = "connect" THEN "None" ELSE "adapter"
       /\ opened = IF Head(sc.plan).name = "connect" THEN 0 ELSE 1
  /\ retries = Retries
  /\ fault = FALSE
  /\ closes = 0

(***************************************************************************)
(* History records.                                                        *)
(***************************************************************************)
Event(ev, text, t) == [ev |-> ev, text |-> text, t |-> t]
\* a call of the plan, with the number of writes made before it
CallEvent(name) == Event("call", <<name>>, Len(writes))
WriteEvent(text) == Event("write", text, 0)
WaitEvent(kind, m, t) == Event(kind, m, t)
MatchedEvent(text) == Event("matched", text, 0)
TimeoutEvent == Event("timeout", <<>>, 0)

\* the device owes a response that the transport has not been given yet
Due == script # <<>> /\ Head(script).after <= Len(writes)

\* a response is on its way: owed by the device, or not yet read
Outstanding == Due \/ pending # <<>>

\* a wait (read_until or read_until_regex) is running
InWait == \E i \in 1..Len(pc) : pc[i] \in {"read_until_drained", "read_until_regex_drained"}

(***************************************************************************)
(* The device.                                                             *)
(***************************************************************************)
\* the device's next response reaches the transport
Deliver ==
  /\ Due
  /\ Head(script).text # Disconnect
  /\ pending' = pending \o Head(script).text
  /\ script' = Tail(script)
  /\ UNCHANGED <<session, writes, plan, pc, send_locals, wait_locals,
                 drain_locals, output, result, lines, history, trace, late>>
  /\ delivered' = Append(delivered, Head(script).text)
  /\ UNCHANGED lifecycle

\* the connection fails
Break ==
  /\ Due
  /\ Head(script).text = Disconnect
  /\ terminal # "None"
  /\ fault' = TRUE
  /\ script' = Tail(script)
  /\ UNCHANGED <<session, pending, writes, plan, pc, send_locals, wait_locals,
                 drain_locals, output, result, lines, history, trace, late,
                 delivered, terminal, protocol, platform, retries, opened,
                 closes>>

(***************************************************************************)
(* The transport adapters: SSH._read, SSH._write, Telnet._read,            *)
(* Telnet._write, called through self.terminal.                            *)
(***************************************************************************)
\* str(terminal_exception), which SSH._read returns when the read raised
Txt_ReadException ==
  <<"S","o","c","k","e","t"," ","i","s"," ","c","l","o","s","e","d">>

\* a call of self.terminal._read() or self.terminal._write() raises: there is
\* no adapter (None has no _read), or the transport of the Telnet adapter
\* raises, which Telnet._read and Telnet._write do not catch
Raises == terminal = "None" \/ (fault /\ protocol = "telnet")

\* the exception that reaches the caller of the session
Raised == IF terminal = "None" THEN "AttributeError" ELSE "EOFError"

\* the value of self.terminal._read() when it returns
TerminalRead == IF fault THEN Txt_ReadException ELSE pending

\* what is left on the transport by a read
AfterRead == IF fault THEN pending ELSE <<>>

\* the texts the transport has taken after self.terminal._write(text):
\* SSH._write returns False when the send raised
Sent(text) == IF fault THEN writes ELSE Append(writes, text)

\* the calls left to make once an exception has left connect()
Unwind(ops) ==
  IF \E i \in 1..Len(ops) : ops[i] = ConnectEnd
  THEN SubSeq(ops, (CHOOSE i \in 1..Len(ops) : ops[i] = ConnectEnd) + 1, Len(ops))
  ELSE ops

(***************************************************************************)
(* Terminal.write: text + end goes to terminal._write.                     *)
(***************************************************************************)
Written(text) == text \o <<LF>>

(***************************************************************************)
(* Terminal.update_buffer.                                                 *)
(***************************************************************************)
\* this_delay and max_delay are floats of the source.  The model holds the
\* multiple of read_delay each of them stands for, in ms, and compares them as
\* the floats compare: this_delay is read_delay added to itself, max_delay is
\* read_delay times retries, and both are rounded to 53 bits at each operation.
\*
\* self.read_delay = 0.002 is the float nearest to 1/Den; it lies between
\* 2^-9 and 2^-8, so it is a whole number of units of 2^-FracBits
Den == 1000 \div read_delay
FracBits == 61
\* the bits of that number the rounding of sums and products depends on
KeptBits == 10

RECURSIVE Pow2(_)
Pow2(n) == IF n = 0 THEN 1 ELSE 2 * Pow2(n - 1)

\* 2^n divided by Den, by long division of Step bits at a time: the low bits
\* of the quotient, and the remainder
Step == 8

RECURSIVE Quotient(_)
Quotient(n) ==
  IF n = 0
  THEN [q |-> 0, r |-> 1]
  ELSE LET d == IF n >= Step THEN Step ELSE n
           p == Quotient(n - d)
       IN [q |-> (Pow2(d) * p.q + (Pow2(d) * p.r) \div Den) % Pow2(KeptBits),
           r |-> (Pow2(d) * p.r) % Den]

\* the low bits of read_delay in units of 2^-FracBits (round to nearest)
Mantissa ==
  (Quotient(FracBits).q + (IF 2 * Quotient(FracBits).r > Den THEN 1 ELSE 0))
    % Pow2(KeptBits)

\* a float near n * read_delay has its last bit at 2^Ulp(n) units
RECURSIVE UlpFrom(_, _)
UlpFrom(n, e) ==
  IF Pow2(FracBits - 52) * n < Den * Pow2(e + 1) THEN e ELSE UlpFrom(n, e + 1)
Ulp(n) == UlpFrom(n, 0)

\* what rounding to nearest, ties to even, adds to a number of units whose low
\* bits are low, when the last bit kept is at 2^e
Rounding(low, e) ==
  LET rest == low % Pow2(e)
      half == Pow2(e) \div 2
      odd == (low \div Pow2(e)) % 2 = 1
  IN IF e = 0 THEN 0
     ELSE IF rest < half \/ (rest = half /\ ~odd) THEN 0 - rest
     ELSE Pow2(e) - rest

\* the error, in units, of read_delay added to itself until it stands for k
\* times read_delay: this_delay = self.read_delay, then this_delay += self.read_delay
RECURSIVE SumError(_)
SumError(k) ==
  IF k <= 1 THEN 0
  ELSE LET before == SumError(k - 1)
       IN before + Rounding((k * Mantissa + before) % Pow2(Ulp(k) + 1), Ulp(k))

\* the error, in units, of the product self.read_delay * n
ProductError(n) ==
  IF n = 0 THEN 0 ELSE Rounding((n * Mantissa) % Pow2(Ulp(n) + 1), Ulp(n))

\* while this_delay <= max_delay
LoopRuns(delay, maximum) ==
  \/ delay < maximum
  \/ /\ delay = maximum
     /\ SumError(delay \div read_delay) <= ProductError(maximum \div read_delay)

\* the state of the locals when the loop is entered
EnterUpdateBuffer ==
  /\ this_delay' = read_delay
  /\ max_delay' = read_delay * retries
  /\ ub_result' = FALSE

\* variant: the buffer is assigned the data instead of being extended by it
Appended_Overwrite(buffer, received_data) == received_data

\* data_buffer after received_data was read
Appended(buffer, received_data) == buffer \o received_data

\* max_delay after received_data was appended
NextMaxDelay_NeverCollapses(buffer) == read_delay * retries

NextMaxDelay(buffer) ==
  IF early_exit(buffer) THEN read_delay ELSE read_delay * retries

\* time.sleep(self.read_delay) moves the clock towards the deadline of the wait
AfterReadSleep == IF InWait THEN end_time - read_delay ELSE end_time

\* update_buffer() called by the user of the session
UpdateBufferCall ==
  /\ pc = <<"idle">>
  /\ plan # <<>>
  /\ Head(plan).name = "update_buffer"
  /\ plan' = Tail(plan)
  /\ pc' = <<"update_buffer", "return_received", "idle">>
  /\ EnterUpdateBuffer
  /\ base' = data_buffer
  /\ chunks' = <<>>
  /\ result' = "none"
  /\ trace' = Append(trace, CallEvent("update_buffer"))
  /\ late' = Outstanding
  /\ UNCHANGED <<session, pending, writes, script, send_locals, wait_locals,
                 output, lines, old_match>>
  /\ delivered' = <<>>
  /\ UNCHANGED lifecycle

\* one pass of the loop in which terminal._read() returned data
UpdateBufferReceive ==
  /\ Head(pc) = "update_buffer"
  /\ LoopRuns(this_delay, max_delay)
  /\ ~Raises
  /\ TerminalRead # <<>>
  /\ fault => Len(chunks) < MaxFaultReads
  /\ pending' = AfterRead
  /\ ub_result' = TRUE
  /\ data_buffer' = Appended(data_buffer, TerminalRead)
  /\ this_delay' = read_delay
  /\ max_delay' = NextMaxDelay(data_buffer')
  /\ end_time' = AfterReadSleep
  /\ chunks' = Append(chunks, TerminalRead)
  /\ UNCHANGED <<last_regex_match, prompt_matched, banner, writes, script,
                 plan, pc, send_locals, match, timeout, output, result, lines,
                 base, old_match, trace, late>>
  /\ UNCHANGED delivered
  /\ UNCHANGED lifecycle

\* one pass of the loop in which terminal._read() returned nothing
UpdateBufferEmpty ==
  /\ Head(pc) = "update_buffer"
  /\ LoopRuns(this_delay, max_delay)
  /\ ~Raises
  /\ TerminalRead = <<>>
  /\ this_delay' = this_delay + read_delay
  /\ end_time' = AfterReadSleep
  /\ UNCHANGED <<session, pending, writes, script, plan, pc, send_locals,
                 match, timeout, max_delay, ub_result, output, result, lines,
                 history, trace, late>>
  /\ UNCHANGED delivered
  /\ UNCHANGED lifecycle

\* the loop ends and update_buffer returns result
UpdateBufferReturn ==
  /\ Head(pc) = "update_buffer"
  /\ ~LoopRuns(this_delay, max_delay)
  /\ pc' = Tail(pc)
  /\ UNCHANGED <<session, pending, writes, script, plan, send_locals,
                 wait_locals, drain_locals, output, result, lines, history,
                 trace, late>>
  /\ UNCHANGED delivered
  /\ UNCHANGED lifecycle

\* update_buffer() returns to the user of the session
ReturnReceived ==
  /\ Head(pc) = "return_received"
  /\ pc' = Tail(pc)
  /\ result' = IF ub_result THEN "True" ELSE "False"
  /\ UNCHANGED <<session, pending, writes, script, plan, send_locals,
                 wait_locals, drain_locals, output, lines, history, trace,
                 late>>
  /\ UNCHANGED delivered
  /\ UNCHANGED lifecycle

(***************************************************************************)
(* Terminal.read_until_regex.                                              *)
(***************************************************************************)
\* the call: the locals of the wait, and where it returns to
EnterReadUntilRegex(pattern, t, return_to) ==
  /\ match' = pattern
  /\ timeout' = t
  /\ end_time' = t
  /\ base' = data_buffer
  /\ chunks' = <<>>
  /\ old_match' = last_regex_match
  /\ pc' = <<"read_until_regex">> \o return_to

\* regex_match.group()
MatchedText(buffer, m) == SubSeq(buffer, m.start, m.end - 1)

\* split_up[0]: the text before the match
RegexOutput(buffer, m) == Before(buffer, m.start)

\* variant: the matched text is dropped, only post_match is kept
RegexRemainder_DropMatch(buffer, m) == From(buffer, m.end)

\* self.last_regex_match + post_match, with post_match = split_up[-1]
RegexRemainder(buffer, m) == MatchedText(buffer, m) \o From(buffer, m.end)

\* while end_time > time.time(): the body starts with update_buffer()
ReadUntilRegexWhile ==
  /\ Head(pc) = "read_until_regex"
  /\ end_time > 0
  /\ pc' = <<"update_buffer", "read_until_regex_drained">> \o Tail(pc)
  /\ EnterUpdateBuffer
  /\ UNCHANGED <<session, pending, writes, script, plan, send_locals,
                 wait_locals, output, result, lines, history, trace, late>>
  /\ UNCHANGED delivered
  /\ UNCHANGED lifecycle

\* while self.update_buffer(): end_time = time.time() + timeout
ReadUntilRegexExtend ==
  /\ Head(pc) = "read_until_regex_drained"
  /\ ub_result
  /\ end_time' = timeout
  /\ pc' = <<"update_buffer">> \o pc
  /\ EnterUpdateBuffer
  /\ UNCHANGED <<session, pending, writes, script, plan, send_locals, match,
                 timeout, output, result, lines, history, trace, late>>
  /\ UNCHANGED delivered
  /\ UNCHANGED lifecycle

\* the pattern is found: the call returns the text before the match
ReadUntilRegexMatch ==
  /\ Head(pc) = "read_until_regex_drained"
  /\ ~ub_result
  /\ LET regex_match == Search(match, data_buffer, TRUE)
     IN /\ regex_match.start # 0
        /\ prompt_matched' = TRUE
        /\ last_regex_match' = MatchedText(data_buffer, regex_match)
        /\ output' = RegexOutput(data_buffer, regex_match)
        /\ data_buffer' = RegexRemainder(data_buffer, regex_match)
        /\ trace' = Append(trace, MatchedEvent(MatchedText(data_buffer, regex_match)))
  /\ pc' = Tail(pc)
  /\ late' = (late \/ Outstanding)
  /\ UNCHANGED <<banner, pending, writes, script, plan, send_locals,
                 wait_locals, drain_locals, result, lines, history>>
  /\ UNCHANGED delivered
  /\ UNCHANGED lifecycle

\* variant: every pass of the loop sets the deadline to now + timeout
ReadUntilRegexSleep_ExtendsDeadline ==
  /\ Head(pc) = "read_until_regex_drained"
  /\ ~ub_result
  /\ Search(match, data_buffer, TRUE).start = 0
  /\ end_time' = timeout
  /\ pc' = <<"read_until_regex">> \o Tail(pc)
  /\ late' = (late \/ Outstanding)
  /\ UNCHANGED <<session, pending, writes, script, plan, send_locals, match,
                 timeout, drain_locals, output, result, lines, history, trace>>
  /\ UNCHANGED delivered
  /\ UNCHANGED lifecycle

\* the pattern is not found: time.sleep(0.1)
ReadUntilRegexSleep ==
  /\ Head(pc) = "read_until_regex_drained"
  /\ ~ub_result
  /\ Search(match, data_buffer, TRUE).start = 0
  /\ end_time' = end_time - idle_sleep
  /\ pc' = <<"read_until_regex">> \o Tail(pc)
  /\ late' = (late \/ Outstanding)
  /\ UNCHANGED <<session, pending, writes, script, plan, send_locals, match,
                 timeout, drain_locals, output, result, lines, history, trace>>
  /\ UNCHANGED delivered
  /\ UNCHANGED lifecycle

\* variant: the timeout path resets last_regex_match
ReadUntilRegexTimeout_ClearsMatch ==
  /\ Head(pc) = "read_until_regex"
  /\ end_time <= 0
  /\ ~Raises
  /\ prompt_matched' = FALSE
  /\ last_regex_match' = <<>>
  /\ output' = data_buffer
  /\ pending' = AfterRead
  /\ data_buffer' = <<>>
  /\ pc' = Tail(pc)
  /\ trace' = Append(trace, TimeoutEvent)
  /\ late' = (late \/ Outstanding)
  /\ UNCHANGED <<banner, writes, script, plan, send_locals, wait_locals,
                 drain_locals, result, lines, history, delivered>>
  /\ UNCHANGED lifecycle

\* the deadline has passed: the buffer is returned and flushed
ReadUntilRegexTimeout ==
  /\ Head(pc) = "read_until_regex"
  /\ end_time <= 0
  /\ ~Raises
  /\ prompt_matched' = FALSE
  /\ output' = data_buffer
  /\ pending' = AfterRead
  /\ data_buffer' = <<>>
  /\ pc' = Tail(pc)
  /\ trace' = Append(trace, TimeoutEvent)
  /\ late' = (late \/ Outstanding)
  /\ UNCHANGED <<last_regex_match, banner, writes, script, plan, send_locals,
                 wait_locals, drain_locals, result, lines, history>>
  /\ UNCHANGED delivered
  /\ UNCHANGED lifecycle

\* read_until_regex() called by the user of the session
ReadUntilRegexCall ==
  /\ pc = <<"idle">>
  /\ plan # <<>>
  /\ Head(plan).name = "read_until_regex"
  /\ plan' = Tail(plan)
  /\ EnterReadUntilRegex(Head(plan).pattern, Head(plan).timeout,
                         <<"return_output">> \o pc)
  /\ result' = "none"
  /\ trace' = trace \o <<CallEvent("read_until_regex"),
                         WaitEvent("read_until_regex", Head(plan).pattern,
                                   Head(plan).timeout)>>
  /\ late' = Outstanding
  /\ UNCHANGED <<session, pending, writes, script, send_locals, drain_locals,
                 output, lines>>
  /\ delivered' = <<>>
  /\ UNCHANGED lifecycle

\* read_until() or read_until_regex() returns to the user of the session
ReturnOutput ==
  /\ Head(pc) = "return_output"
  /\ pc' = Tail(pc)
  /\ result' = "output"
  /\ UNCHANGED <<session, pending, writes, script, plan, send_locals,
                 wait_locals, drain_locals, output, lines, history, trace,
                 late>>
  /\ UNCHANGED delivered
  /\ UNCHANGED lifecycle

(***************************************************************************)
(* Terminal.read_until.                                                    *)
(***************************************************************************)
EnterReadUntil(literal, t, return_to) ==
  /\ match' = literal
  /\ timeout' = t
  /\ end_time' = t
  /\ base' = data_buffer
  /\ chunks' = <<>>
  /\ old_match' = last_regex_match
  /\ pc' = <<"read_until">> \o return_to

\* output of self.data_buffer.split(match, 1), the literal found at position i
LiteralOutput(buffer, i) == Before(buffer, i)

\* variant: the literal is dropped, only post_match is kept
LiteralRemainder_DropMatch(buffer, literal, i) == From(buffer, i + Len(literal))

\* match + post_match
LiteralRemainder(buffer, literal, i) == literal \o From(buffer, i + Len(literal))

ReadUntilWhile ==
  /\ Head(pc) = "read_until"
  /\ end_time > 0
  /\ pc' = <<"update_buffer", "read_until_drained">> \o Tail(pc)
  /\ EnterUpdateBuffer
  /\ UNCHANGED <<session, pending, writes, script, plan, send_locals,
                 wait_locals, output, result, lines, history, trace, late>>
  /\ UNCHANGED delivered
  /\ UNCHANGED lifecycle

ReadUntilExtend ==
  /\ Head(pc) = "read_until_drained"
  /\ ub_result
  /\ end_time' = timeout
  /\ pc' = <<"update_buffer">> \o pc
  /\ EnterUpdateBuffer
  /\ UNCHANGED <<session, pending, writes, script, plan, send_locals, match,
                 timeout, output, result, lines, history, trace, late>>
  /\ UNCHANGED delivered
  /\ UNCHANGED lifecycle

\* match in self.data_buffer
ReadUntilMatch ==
  /\ Head(pc) = "read_until_drained"
  /\ ~ub_result
  /\ Find(data_buffer, match) # 0
  /\ output' = LiteralOutput(data_buffer, Find(data_buffer, match))
  /\ data_buffer' = LiteralRemainder(data_buffer, match, Find(data_buffer, match))
  /\ trace' = Append(trace, MatchedEvent(match))
  /\ pc' = Tail(pc)
  /\ late' = (late \/ Outstanding)
  /\ UNCHANGED <<last_regex_match, prompt_matched, banner, pending, writes,
                 script, plan, send_locals, wait_locals, drain_locals, result,
                 lines, history>>
  /\ UNCHANGED delivered
  /\ UNCHANGED lifecycle

ReadUntilSleep ==
  /\ Head(pc) = "read_until_drained"
  /\ ~ub_result
  /\ Find(data_buffer, match) = 0
  /\ end_time' = end_time - idle_sleep
  /\ pc' = <<"read_until">> \o Tail(pc)
  /\ late' = (late \/ Outstanding)
  /\ UNCHANGED <<session, pending, writes, script, plan, send_locals, match,
                 timeout, drain_locals, output, result, lines, history, trace>>
  /\ UNCHANGED delivered
  /\ UNCHANGED lifecycle

\* variant: the buffer is cleared without reading the transport
ReadUntilTimeout_KeepsPending ==
  /\ Head(pc) = "read_until"
  /\ end_time <= 0
  /\ ~Raises
  /\ output' = data_buffer
  /\ data_buffer' = <<>>
  /\ pc' = Tail(pc)
  /\ trace' = Append(trace, TimeoutEvent)
  /\ late' = (late \/ Outstanding)
  /\ UNCHANGED <<last_regex_match, prompt_matched, banner, pending, writes,
                 script, plan, send_locals, wait_locals, drain_locals, result,
                 lines, history, delivered>>
  /\ UNCHANGED lifecycle

\* the deadline has passed: output = self.data_buffer; self.flush_buffer()
ReadUntilTimeout ==
  /\ Head(pc) = "read_until"
  /\ end_time <= 0
  /\ ~Raises
  /\ output' = data_buffer
  /\ pending' = AfterRead
  /\ data_buffer' = <<>>
  /\ pc' = Tail(pc)
  /\ trace' = Append(trace, TimeoutEvent)
  /\ late' = (late \/ Outstanding)
  /\ UNCHANGED <<last_regex_match, prompt_matched, banner, writes, script,
                 plan, send_locals, wait_locals, drain_locals, result, lines,
                 history>>
  /\ UNCHANGED delivered
  /\ UNCHANGED lifecycle

\* read_until() called by the user of the session
ReadUntilCall ==
  /\ pc = <<"idle">>
  /\ plan # <<>>
  /\ Head(plan).name = "read_until"
  /\ plan' = Tail(plan)
  /\ EnterReadUntil(Head(plan).text, Head(plan).timeout,
                    <<"return_output">> \o pc)
  /\ result' = "none"
  /\ trace' = trace \o <<CallEvent("read_until"),
                         WaitEvent("read_until", Head(plan).text,
                                   Head(plan).timeout)>>
  /\ late' = Outstanding
  /\ UNCHANGED <<session, pending, writes, script, send_locals, drain_locals,
                 output, lines>>
  /\ delivered' = <<>>
  /\ UNCHANGED lifecycle

(***************************************************************************)
(* Terminal.login.                                                         *)
(***************************************************************************)
\* login(username, password): the wait for the prompt or a login prompt
LoginCall ==
  /\ pc = <<"idle">>
  /\ plan # <<>>
  /\ Head(plan).name = "login"
  /\ plan' = Tail(plan)
  /\ EnterReadUntilRegex(prompt \o login_prompt, SessionTimeout,
                         <<"login_first">> \o pc)
  /\ result' = "none"
  /\ trace' = trace \o <<CallEvent("login"),
                         WaitEvent("read_until_regex", prompt \o login_prompt,
                                   SessionTimeout)>>
  /\ late' = Outstanding
  /\ UNCHANGED <<session, pending, writes, script, send_locals, drain_locals,
                 output, lines>>
  /\ delivered' = <<>>
  /\ UNCHANGED lifecycle

\* variant: the prompt pattern of enable_privilege is used
AlreadyLoggedIn_WrongPattern(last_match) ==
  Matches(<<"enable_prompt">>, last_match, FALSE)

\* re.search(self.prompt, self.last_regex_match)
AlreadyLoggedIn(last_match) == Matches(prompt, last_match, FALSE)

\* the prompt was matched: already logged in
LoginAlreadyLoggedIn ==
  /\ Head(pc) = "login_first"
  /\ AlreadyLoggedIn(last_regex_match)
  /\ result' = "True"
  /\ pc' = Tail(pc)
  /\ UNCHANGED <<session, pending, writes, script, plan, send_locals,
                 wait_locals, drain_locals, output, lines, history, trace,
                 late>>
  /\ UNCHANGED delivered
  /\ UNCHANGED lifecycle

\* self.write(username); self.read_until_regex(password_prompt)
LoginWriteUsername ==
  /\ Head(pc) = "login_first"
  /\ ~AlreadyLoggedIn(last_regex_match)
  /\ ~Raises
  /\ writes' = Sent(Written(username))
  /\ EnterReadUntilRegex(password_prompt, SessionTimeout,
                         <<"login_password">> \o Tail(pc))
  /\ trace' = trace \o <<WriteEvent(Written(username)),
                         WaitEvent("read_until_regex", password_prompt,
                                   SessionTimeout)>>
  /\ UNCHANGED <<session, pending, script, plan, send_locals, drain_locals,
                 output, result, lines, late>>
  /\ UNCHANGED delivered
  /\ UNCHANGED lifecycle

\* self.write(password); self.read_until_regex(prompt|login_prompt|auth_fail)
LoginWritePassword ==
  /\ Head(pc) = "login_password"
  /\ ~Raises
  /\ writes' = Sent(Written(password))
  /\ EnterReadUntilRegex(prompt \o login_prompt \o auth_fail, SessionTimeout,
                         <<"login_result">> \o Tail(pc))
  /\ trace' = trace \o <<WriteEvent(Written(password)),
                         WaitEvent("read_until_regex",
                                   prompt \o login_prompt \o auth_fail,
                                   SessionTimeout)>>
  /\ UNCHANGED <<session, pending, script, plan, send_locals, drain_locals,
                 output, result, lines, late>>
  /\ UNCHANGED delivered
  /\ UNCHANGED lifecycle

\* variant: only the failure phrase is looked for
AuthenticationFailed_PhraseOnly(last_match) ==
  Matches(auth_fail, last_match, FALSE)

\* re.search(login_prompt|auth_fail, self.last_regex_match)
AuthenticationFailed(last_match) ==
  Matches(login_prompt \o auth_fail, last_match, FALSE)

\* raise UserWarning('Authentication Failed')
LoginFailed ==
  /\ Head(pc) = "login_result"
  /\ AuthenticationFailed(last_regex_match)
  /\ result' = "UserWarning"
  /\ pc' = Tail(pc)
  /\ plan' = Unwind(plan)
  /\ UNCHANGED <<session, pending, writes, script, send_locals,
                 wait_locals, drain_locals, output, lines, history, trace,
                 late>>
  /\ UNCHANGED delivered
  /\ UNCHANGED lifecycle

\* login falls off its end and returns None
LoginReturn ==
  /\ Head(pc) = "login_result"
  /\ ~AuthenticationFailed(last_regex_match)
  /\ result' = "None"
  /\ pc' = Tail(pc)
  /\ UNCHANGED <<session, pending, writes, script, plan, send_locals,
                 wait_locals, drain_locals, output, lines, history, trace,
                 late>>
  /\ UNCHANGED delivered
  /\ UNCHANGED lifecycle

(***************************************************************************)
(* Terminal.enable_privilege.                                              *)
(***************************************************************************)
\* self.write(command); self.read_until_regex(prompt)
EnablePrivilegeCall ==
  /\ pc = <<"idle">>
  /\ plan # <<>>
  /\ Head(plan).name = "enable_privilege"
  /\ plan' = Tail(plan)
  /\ ~Raises
  /\ writes' = Sent(Written(enable_command))
  /\ EnterReadUntilRegex(enable_prompt, SessionTimeout, <<"enable_loop">> \o pc)
  /\ result' = "none"
  /\ trace' = trace \o <<CallEvent("enable_privilege"),
                         WriteEvent(Written(enable_command)),
                         WaitEvent("read_until_regex", enable_prompt,
                                   SessionTimeout)>>
  /\ late' = Outstanding
  /\ UNCHANGED <<session, pending, script, send_locals, drain_locals, output,
                 lines>>
  /\ delivered' = <<>>
  /\ UNCHANGED lifecycle

\* re.search(r'[Pp]assword:? ?$', current_match)
IsChallenge(current_match) == Matches(<<"challenge">>, current_match, FALSE)

\* re.search(r'# ?$', current_match)
IsPrivileged(current_match) == Matches(<<"hash">>, current_match, FALSE)

\* the body of the while loop: the password is written and the wait repeated
EnablePrivilegeAnswer ==
  /\ Head(pc) = "enable_loop"
  /\ IsChallenge(last_regex_match)
  /\ Len(writes) < MaxWrites
  /\ ~Raises
  /\ writes' = Sent(Written(password))
  /\ EnterReadUntilRegex(enable_prompt, SessionTimeout, pc)
  /\ trace' = trace \o <<WriteEvent(Written(password)),
                         WaitEvent("read_until_regex", enable_prompt,
                                   SessionTimeout)>>
  /\ UNCHANGED <<session, pending, script, plan, send_locals, drain_locals,
                 output, result, lines, late>>
  /\ UNCHANGED delivered
  /\ UNCHANGED lifecycle

\* variant: any shell prompt counts as privileged
EnableResult_AnyPrompt(current_match) ==
  IF Matches(<<"enable_prompt">>, current_match, FALSE) THEN "True" ELSE "False"

\* the value enable_privilege returns
EnableResult(current_match) ==
  IF IsPrivileged(current_match) THEN "True" ELSE "False"

EnablePrivilegeReturn ==
  /\ Head(pc) = "enable_loop"
  /\ ~IsChallenge(last_regex_match)
  /\ result' = EnableResult(last_regex_match)
  /\ pc' = Tail(pc)
  /\ UNCHANGED <<session, pending, writes, script, plan, send_locals,
                 wait_locals, drain_locals, output, lines, history, trace,
                 late>>
  /\ UNCHANGED delivered
  /\ UNCHANGED lifecycle

(***************************************************************************)
(* Terminal.send and Terminal._send_main.                                  *)
(***************************************************************************)
\* the banner checking of _send_main: self.banner after it
BannerCheck(cmd, old) ==
  LET tokens == Split(LStrip(cmd))
      delimiter == IF Len(tokens) > 2
                   THEN tokens[3][1]
                   ELSE tokens[Len(tokens)][1]
      last_token == tokens[Len(tokens)]
  IN IF StartsWith(LStrip(cmd), banner_keyword)
     THEN IF Len(tokens) > 3 /\ delimiter = last_token[Len(last_token)]
          THEN NoBanner
          ELSE delimiter
     ELSE old

\* the timeout of the prompt wait
PromptTimeout(banner_flag, t) ==
  IF banner_flag # NoBanner THEN banner_timeout ELSE t

\* variant: the whole first line is awaited
EchoLiteral_WholeLine(cmd) == SplitLines(cmd)[1]

\* command.splitlines()[0][0:20]
EchoLiteral(cmd) ==
  LET first_line == SplitLines(cmd)[1]
  IN SubSeq(first_line, 1, IF Len(first_line) < echo_chars
                           THEN Len(first_line)
                           ELSE echo_chars)

\* self.banner after the prompt wait
BannerAfter(banner_flag, matched, cmd) ==
  IF /\ banner_flag # NoBanner
     /\ (matched \/ StartsWith(LStrip(cmd), <<banner_flag>>))
  THEN NoBanner
  ELSE banner_flag

\* send(command) with a command that is not empty: up to the echo wait
SendCommand ==
  /\ pc = <<"idle">>
  /\ plan # <<>>
  /\ Head(plan).name = "send"
  /\ Head(plan).text # <<>>
  /\ plan' = Tail(plan)
  /\ command' = Head(plan).text
  /\ banner' = BannerCheck(command', banner)
  /\ send_timeout' = PromptTimeout(banner', Head(plan).timeout)
  /\ ~Raises
  /\ writes' = Sent(Written(command'))
  /\ send_result' = <<>>
  /\ EnterReadUntil(EchoLiteral(command'), echo_timeout, <<"send_echo">> \o pc)
  /\ result' = "none"
  /\ trace' = trace \o <<CallEvent("send"), WriteEvent(Written(command')),
                         WaitEvent("read_until", EchoLiteral(command'),
                                   echo_timeout)>>
  /\ late' = Outstanding
  /\ UNCHANGED <<data_buffer, last_regex_match, prompt_matched, pending,
                 script, drain_locals, output, lines>>
  /\ delivered' = <<>>
  /\ UNCHANGED lifecycle

\* send(''): the echo wait is skipped
SendEmpty ==
  /\ pc = <<"idle">>
  /\ plan # <<>>
  /\ Head(plan).name = "send"
  /\ Head(plan).text = <<>>
  /\ plan' = Tail(plan)
  /\ command' = <<>>
  /\ banner' = BannerCheck(command', banner)
  /\ send_timeout' = PromptTimeout(banner', Head(plan).timeout)
  /\ ~Raises
  /\ writes' = Sent(Written(command'))
  /\ send_result' = <<>>
  /\ EnterReadUntilRegex(prompt, send_timeout', <<"send_prompt">> \o pc)
  /\ result' = "none"
  /\ trace' = trace \o <<CallEvent("send"), WriteEvent(Written(command')),
                         WaitEvent("read_until_regex", prompt, send_timeout')>>
  /\ late' = Outstanding
  /\ UNCHANGED <<data_buffer, last_regex_match, prompt_matched, pending,
                 script, drain_locals, output, lines>>
  /\ delivered' = <<>>
  /\ UNCHANGED lifecycle

\* result = self.read_until(...); then self.read_until_regex(prompt, timeout)
SendEcho ==
  /\ Head(pc) = "send_echo"
  /\ send_result' = output
  /\ EnterReadUntilRegex(prompt, send_timeout, <<"send_prompt">> \o Tail(pc))
  /\ trace' = Append(trace, WaitEvent("read_until_regex", prompt, send_timeout))
  /\ UNCHANGED <<session, pending, writes, script, plan, command,
                 send_timeout, drain_locals, output, result, lines, late>>
  /\ UNCHANGED delivered
  /\ UNCHANGED lifecycle

\* result += ...; banner mode is left; send returns result.splitlines()
SendReturn ==
  /\ Head(pc) = "send_prompt"
  /\ send_result' = send_result \o output
  /\ banner' = BannerAfter(banner, prompt_matched, command)
  /\ lines' = SplitLines(send_result')
  /\ result' = "lines"
  /\ pc' = Tail(pc)
  /\ UNCHANGED <<data_buffer, last_regex_match, prompt_matched, pending,
                 writes, script, plan, command, send_timeout, wait_locals,
                 drain_locals, output, history, trace, late>>
  /\ UNCHANGED delivered
  /\ UNCHANGED lifecycle

(***************************************************************************)
(* Exceptions of the transport that reach the session.                     *)
(***************************************************************************)
\* received_data = self.terminal._read() raises in update_buffer
ReadRaises ==
  /\ Head(pc) = "update_buffer"
  /\ LoopRuns(this_delay, max_delay)
  /\ Raises
  /\ result' = Raised
  /\ pc' = <<"idle">>
  /\ plan' = Unwind(plan)
  /\ UNCHANGED <<session, pending, writes, script, send_locals, wait_locals,
                 drain_locals, output, lines, history, trace, late, delivered,
                 lifecycle>>

\* self.terminal._read() raises in flush_buffer, on the timeout path of a wait
FlushRaises ==
  /\ Head(pc) \in {"read_until", "read_until_regex"}
  /\ end_time <= 0
  /\ Raises
  /\ prompt_matched' = IF Head(pc) = "read_until_regex" THEN FALSE
                       ELSE prompt_matched
  /\ result' = Raised
  /\ pc' = <<"idle">>
  /\ plan' = Unwind(plan)
  /\ UNCHANGED <<data_buffer, last_regex_match, banner, pending, writes,
                 script, send_locals, wait_locals, drain_locals, output, lines,
                 history, trace, late, delivered, lifecycle>>

\* self.write(...) raises inside login or enable_privilege
WriteRaises ==
  /\ \/ Head(pc) = "login_first" /\ ~AlreadyLoggedIn(last_regex_match)
     \/ Head(pc) = "login_password"
     \/ Head(pc) = "enable_loop" /\ IsChallenge(last_regex_match)
  /\ Raises
  /\ result' = Raised
  /\ pc' = <<"idle">>
  /\ plan' = Unwind(plan)
  /\ UNCHANGED <<session, pending, writes, script, send_locals, wait_locals,
                 drain_locals, output, lines, history, trace, late, delivered,
                 lifecycle>>

\* the first write of enable_privilege or of _send_main raises
CallRaises ==
  /\ pc = <<"idle">>
  /\ plan # <<>>
  /\ Head(plan).name \in {"enable_privilege", "send"}
  /\ Raises
  /\ banner' = IF Head(plan).name = "send"
               THEN BannerCheck(Head(plan).text, banner)
               ELSE banner
  /\ command' = IF Head(plan).name = "send" THEN Head(plan).text ELSE command
  /\ send_timeout' = IF Head(plan).name = "send"
                     THEN PromptTimeout(banner', Head(plan).timeout)
                     ELSE send_timeout
  /\ result' = Raised
  /\ plan' = Unwind(Tail(plan))
  /\ trace' = Append(trace, CallEvent(Head(plan).name))
  /\ late' = Outstanding
  /\ delivered' = <<>>
  /\ UNCHANGED <<data_buffer, last_regex_match, prompt_matched, pending,
                 writes, script, pc, send_result, wait_locals, drain_locals,
                 output, lines, history, lifecycle>>

(***************************************************************************)
(* Terminal.send with send=False.                                          *)
(***************************************************************************)
\* '[SEND=FALSE] {0}'.format(command)
Preview(cmd) == preview_mark \o cmd

\* variant: the banner checking of _send_main runs before the preview is made
SendPreviewCall_ChecksBanner ==
  /\ pc = <<"idle">>
  /\ plan # <<>>
  /\ Head(plan).name = "send_preview"
  /\ plan' = Tail(plan)
  /\ banner' = BannerCheck(Head(plan).text, banner)
  /\ lines' = SplitLines(Preview(Head(plan).text))
  /\ result' = "lines"
  /\ trace' = Append(trace, CallEvent("send_preview"))
  /\ late' = Outstanding
  /\ delivered' = <<>>
  /\ UNCHANGED <<data_buffer, last_regex_match, prompt_matched, pending,
                 writes, script, pc, send_locals, wait_locals, drain_locals,
                 output, history, lifecycle>>

\* send(command, send=False): the preview is returned as lines
SendPreviewCall ==
  /\ pc = <<"idle">>
  /\ plan # <<>>
  /\ Head(plan).name = "send_preview"
  /\ plan' = Tail(plan)
  /\ lines' = SplitLines(Preview(Head(plan).text))
  /\ result' = "lines"
  /\ trace' = Append(trace, CallEvent("send_preview"))
  /\ late' = Outstanding
  /\ delivered' = <<>>
  /\ UNCHANGED <<session, pending, writes, script, pc, send_locals,
                 wait_locals, drain_locals, output, history, lifecycle>>

(***************************************************************************)
(* Terminal.connect and Terminal.close.                                    *)
(***************************************************************************)
\* variant: the paging command is sent before the elevation
ConnectBody_PagingFirst ==
  (IF protocol = "telnet" THEN <<Login>> ELSE <<>>)
    \o (IF platform = "cisco"
        THEN <<Send(disable_paging), EnablePrivilege>>
        ELSE <<>>)

\* the calls connect() makes once the adapter is constructed
ConnectBody ==
  (IF protocol = "telnet" THEN <<Login>> ELSE <<>>)
    \o (IF platform = "cisco"
        THEN <<EnablePrivilege, Send(disable_paging)>>
        ELSE <<>>)

\* connect() on a session that holds an adapter: return False
ConnectRefused ==
  /\ pc = <<"idle">>
  /\ plan # <<>>
  /\ Head(plan).name = "connect"
  /\ terminal # "None"
  /\ plan' = Tail(plan)
  /\ result' = "False"
  /\ trace' = Append(trace, CallEvent("connect"))
  /\ late' = Outstanding
  /\ delivered' = <<>>
  /\ UNCHANGED <<session, pending, writes, script, pc, send_locals,
                 wait_locals, drain_locals, output, lines, history, lifecycle>>

\* connect() on a session without adapter: the adapter is constructed and the
\* calls of the body follow
ConnectCall ==
  /\ pc = <<"idle">>
  /\ plan # <<>>
  /\ Head(plan).name = "connect"
  /\ terminal = "None"
  /\ terminal' = "adapter"
  /\ opened' = opened + 1
  /\ fault' = FALSE
  /\ pending' = <<>>
  /\ plan' = ConnectBody \o <<ConnectEnd>> \o Tail(plan)
  /\ result' = "none"
  /\ trace' = Append(trace, CallEvent("connect"))
  /\ late' = Outstanding
  /\ delivered' = <<>>
  /\ UNCHANGED <<session, writes, script, pc, send_locals, wait_locals,
                 drain_locals, output, lines, history, protocol, platform,
                 retries, closes>>

\* the body of connect() has run: return True
ConnectReturn ==
  /\ pc = <<"idle">>
  /\ plan # <<>>
  /\ Head(plan) = ConnectEnd
  /\ plan' = Tail(plan)
  /\ result' = "True"
  /\ trace' = Append(trace, Event("return", <<"connect">>, Len(writes)))
  /\ UNCHANGED <<session, pending, writes, script, pc, send_locals,
                 wait_locals, drain_locals, output, lines, history, late,
                 delivered, lifecycle>>

\* close(): the adapter, if there is one, is closed and dropped
CloseCall ==
  /\ pc = <<"idle">>
  /\ plan # <<>>
  /\ Head(plan).name = "close"
  /\ plan' = Tail(plan)
  /\ closes' = IF terminal # "None" THEN closes + 1 ELSE closes
  /\ terminal' = "None"
  /\ result' = "None"
  /\ trace' = Append(trace, CallEvent("close"))
  /\ late' = Outstanding
  /\ delivered' = <<>>
  /\ UNCHANGED <<session, pending, writes, script, pc, send_locals,
                 wait_locals, drain_locals, output, lines, history, protocol,
                 platform, retries, fault, opened>>

(***************************************************************************)
(* The specification.                                                      *)
(***************************************************************************)
Next ==
  \/ Deliver
  \/ Break
  \/ ReadRaises
  \/ FlushRaises
  \/ WriteRaises
  \/ CallRaises
  \/ SendPreviewCall
  \/ ConnectRefused
  \/ ConnectCall
  \/ ConnectReturn
  \/ CloseCall
  \/ UpdateBufferCall
  \/ UpdateBufferReceive
  \/ UpdateBufferEmpty
  \/ UpdateBufferReturn
  \/ ReturnReceived
  \/ ReadUntilRegexCall
  \/ ReadUntilRegexWhile
  \/ ReadUntilRegexExtend
  \/ ReadUntilRegexMatch
  \/ ReadUntilRegexSleep
  \/ ReadUntilRegexTimeout
  \/ ReadUntilCall
  \/ ReadUntilWhile
  \/ ReadUntilExtend
  \/ ReadUntilMatch
  \/ ReadUntilSleep
  \/ ReadUntilTimeout
  \/ ReturnOutput
  \/ LoginCall
  \/ LoginAlreadyLoggedIn
  \/ LoginWriteUsername
  \/ LoginWritePassword
  \/ LoginFailed
  \/ LoginReturn
  \/ EnablePrivilegeCall
  \/ EnablePrivilegeAnswer
  \/ EnablePrivilegeReturn
  \/ SendCommand
  \/ SendEmpty
  \/ SendEcho
  \/ SendReturn

Spec == Init /\ [][Next]_vars

(***************************************************************************)
(* Vocabulary of the properties.                                           *)
(***************************************************************************)
\* position in trace of the call in progress (or the last one made)
LastCall ==
  CHOOSE k \in 1..Len(trace) :
    /\ trace[k].ev = "call"
    /\ \A j \in (k + 1)..Len(trace) : trace[j].ev # "call"

\* the name of that call, its events and its transport writes
CallName == trace[LastCall].text[1]
CallTrace == SubSeq(trace, LastCall + 1, Len(trace))
CallWrites == SubSeq(writes, trace[LastCall].t + 1, Len(writes))

\* the call `name` has returned (or raised) and nothing was called after it
Done(name) ==
  /\ trace # <<>>
  /\ CallName = name
  /\ pc = <<"idle">>
  /\ result # "none"
  \* the call was made by the user of the session, not by connect()
  /\ trace[Len(trace)].ev # "return"

\* the session holds an adapter whose transport has not failed (what the
\* session does on a failed or closed transport is the subject of C12 and C13)
Working == terminal # "None" /\ ~fault

\* the last thing that happened: a wait of this kind ended this way
Returned(kind, how) ==
  /\ Len(trace) >= 2
  /\ trace[Len(trace)].ev = how
  /\ trace[Len(trace) - 1].ev = kind

\* the text the wait in progress has had in the buffer: what it was entered
\* with, followed by what update_buffer read since
Searched == base \o Flatten(chunks)

\* the wait that has just returned repeats the wait before it, which found its
\* pattern, and update_buffer was not called in between
RepeatsMatchedWait ==
  \E k \in 1..(Len(trace) - 3) :
    /\ trace[k] = trace[Len(trace) - 1]
    /\ trace[k + 1].ev = "matched"
    /\ \A j \in (k + 2)..(Len(trace) - 2) :
         \/ trace[j].ev = "write"
         \/ trace[j].ev = "call" /\ trace[j].text # <<"update_buffer">>

(***************************************************************************)
(* C1: when read_until_regex finds its pattern in a buffer S.M.R, M being  *)
(* the first match, it returns exactly S, leaves the buffer equal to M.R,  *)
(* sets last_regex_match to M and prompt_matched to true; a second call    *)
(* with the same pattern that reads no new data finds the pattern again,   *)
(* returns the empty text and leaves buffer and last_regex_match as they   *)
(* were.                                                                   *)
(***************************************************************************)
C1_RegexMatchKeepsAnchor ==
  /\ Returned("read_until_regex", "matched") =>
       LET S == output
           M == last_regex_match
       IN /\ M # <<>>
          /\ S \o data_buffer = Searched
          /\ StartsWith(data_buffer, M)
          /\ MatchEnd(match, Searched, Len(S) + 1, TRUE) = Len(S) + 1 + Len(M)
          /\ \A i \in 1..Len(S) : MatchEnd(match, Searched, i, TRUE) = 0
          /\ prompt_matched
  /\ ( /\ \/ Returned("read_until_regex", "matched")
          \/ Returned("read_until_regex", "timeout")
       /\ RepeatsMatchedWait
       /\ chunks = <<>> ) =>
       /\ trace[Len(trace)].ev = "matched"
       /\ output = <<>>
       /\ data_buffer = base
       /\ last_regex_match = old_match

\* a repeated wait has found the anchored match again, with text after it
C1_Witness ==
  /\ Returned("read_until_regex", "matched")
  /\ RepeatsMatchedWait
  /\ chunks = <<>>
  /\ output = <<>>
  /\ Len(data_buffer) > Len(last_regex_match)

(***************************************************************************)
(* C2: while update_buffer is draining, in one call or in several calls in *)
(* a row, the buffer is the buffer it started from followed by the chunks  *)
(* its reads returned, in the order they were read.                        *)
(***************************************************************************)
Draining ==
  Head(pc) \in {"update_buffer", "return_received", "read_until",
                "read_until_drained", "read_until_regex",
                "read_until_regex_drained"}

C2_DrainAppendsInOrder == Draining => data_buffer = base \o Flatten(chunks)

\* several chunks were read on top of a buffer that was not empty
C2_Witness ==
  /\ Draining
  /\ Len(chunks) >= 2
  /\ base # <<>>

(***************************************************************************)
(* C5: when read_until_regex runs out of time it returns (it does not      *)
(* raise) the text buffered so far, prompt_matched is false and            *)
(* last_regex_match is what it was before the call.                        *)
(***************************************************************************)
C5_RegexTimeoutKeepsLastMatch ==
  Returned("read_until_regex", "timeout") =>
    /\ output = Searched
    /\ ~prompt_matched
    /\ last_regex_match = old_match
    /\ Head(pc) \in {"login_first", "login_password", "login_result",
                     "enable_loop", "send_prompt", "return_output", "idle"}

\* a timed-out wait returned partial text and kept a stale match
C5_Witness ==
  /\ Returned("read_until_regex", "timeout")
  /\ output # <<>>
  /\ last_regex_match # <<>>

(***************************************************************************)
(* C9: when read_until finds the literal L in the buffer it returns the    *)
(* text before the first occurrence of L and leaves L and everything after *)
(* it in the buffer: the returned text followed by the buffer is the       *)
(* buffer before the extraction.                                           *)
(***************************************************************************)
C9_LiteralMatchKeepsAnchor ==
  Returned("read_until", "matched") =>
    /\ output \o data_buffer = Searched
    /\ StartsWith(data_buffer, match)
    /\ \A i \in 1..Len(output) : ~LitAt(Searched, i, match)

\* a literal was found with text before it and text after it
C9_Witness ==
  /\ Returned("read_until", "matched")
  /\ output # <<>>
  /\ Len(data_buffer) > Len(match)

(***************************************************************************)
(* C10: when read_until runs out of time it returns (it does not raise)    *)
(* all the buffered text, discards what is pending on the transport and    *)
(* leaves the buffer empty.                                                *)
(***************************************************************************)
C10_LiteralTimeoutFlushes ==
  [][ ( /\ Working
        /\ Head(pc) = "read_until"
        /\ end_time <= 0
        /\ pc' # pc )
      => /\ output' = data_buffer
         /\ output' = Searched
         /\ data_buffer' = <<>>
         /\ pending' = <<>>
         /\ pc' = Tail(pc) ]_vars

\* a timed-out literal wait returned the buffered text and emptied the buffer
C10_Witness ==
  /\ Returned("read_until", "timeout")
  /\ output # <<>>
  /\ data_buffer = <<>>

(***************************************************************************)
(* C3: when the waits of login find a login prompt, then the password      *)
(* prompt, then the canonical prompt, login has made exactly two transport *)
(* writes, the username and then the password, and returns without         *)
(* raising; when the third wait finds a login prompt again or the failure  *)
(* phrase, login raises the authentication failure after those two writes. *)
(***************************************************************************)
\* the whole of text is a login prompt word / the canonical prompt
IsLoginWord(text) == MatchEnd(login_prompt, text, 1, FALSE) = Len(text) + 1
IsFailurePhrase(text) == MatchEnd(auth_fail, text, 1, FALSE) = Len(text) + 1
IsCanonicalPrompt(text) == PromptEnd(text, 1, FALSE) = Len(text) + 1

\* the three waits of the login that has ended found their patterns, the first
\* of them a login prompt
LoginExchange ==
  /\ Done("login")
  /\ Len(CallTrace) = 8
  /\ CallTrace[2].ev = "matched"
  /\ IsLoginWord(CallTrace[2].text)
  /\ CallTrace[5].ev = "matched"
  /\ CallTrace[8].ev = "matched"

C3_LoginExchange ==
  LoginExchange =>
    /\ CallWrites = <<Written(username), Written(password)>>
    /\ CallTrace[3] = WriteEvent(Written(username))
    /\ CallTrace[6] = WriteEvent(Written(password))
    /\ IsCanonicalPrompt(CallTrace[8].text) => result = "None"
    /\ (IsLoginWord(CallTrace[8].text) \/ IsFailurePhrase(CallTrace[8].text))
         => result = "UserWarning"

\* a login that was refused because the login prompt came back
C3_Witness ==
  /\ LoginExchange
  /\ IsLoginWord(CallTrace[8].text)
  /\ result = "UserWarning"

(***************************************************************************)
(* C4: when the device owes nothing as the call begins and every response  *)
(* is in the buffer by the time the next wait examines it,                 *)
(* enable_privilege writes the                                             *)
(* elevation command once and then the password once for each password    *)
(* challenge the device presents; it returns True when the final match     *)
(* ends in '#' and False, without raising, when it does not.               *)
(***************************************************************************)
\* the responses of the device, since the call, that end in a challenge
Challenges ==
  {k \in 1..Len(delivered) :
     LitAt(delivered[k], Len(delivered[k]) - Len(Txt_Challenge) + 1, Txt_Challenge)}

\* text ends in '#' or in '# '
EndsPrivileged(text) ==
  \/ At(text, Len(text)) = "#"
  \/ At(text, Len(text)) = SP /\ At(text, Len(text) - 1) = "#"

SendWaited ==
  /\ Working
  /\ trace # <<>>
  /\ CallName = "send"
  /\ Head(pc) = "send_prompt"

\* the first 20 characters of a command of one line
First20(cmd) == SubSeq(cmd, 1, IF Len(cmd) < 20 THEN Len(cmd) ELSE 20)

\* the events of a send whose prompt wait was given the timeout t
SendShape(t) ==
  /\ CallWrites = <<command \o <<LF>>>>
  /\ CallTrace[1] = WriteEvent(command \o <<LF>>)
  /\ IF command # <<>>
     THEN /\ Len(CallTrace) = 5
          /\ CallTrace[2] = WaitEvent("read_until", First20(command), 3000)
          /\ CallTrace[3].ev \in {"matched", "timeout"}
          /\ CallTrace[4] = WaitEvent("read_until_regex", prompt, t)
          /\ CallTrace[5].ev \in {"matched", "timeout"}
     ELSE /\ Len(CallTrace) = 3
          /\ CallTrace[2] = WaitEvent("read_until_regex", prompt, t)
          /\ CallTrace[3].ev \in {"matched", "timeout"}

\* what a send that has returned hands back
SendValue ==
  (Working /\ Done("send")) =>
    /\ result = "lines"
    /\ lines = SplitLines(send_result)
    /\ SubSeq(send_result, Len(send_result) - Len(output) + 1, Len(send_result))
         = output

C7_LoginShortCircuit ==
  ( /\ Done("login")
    /\ CallTrace[2].ev = "matched"
    /\ IsCanonicalPrompt(CallTrace[2].text) ) =>
    /\ CallWrites = <<>>
    /\ Len(CallTrace) = 2
    /\ result = "True"

\* a login that found the canonical prompt first
C7_Witness ==
  /\ Done("login")
  /\ CallTrace[2].ev = "matched"
  /\ IsCanonicalPrompt(CallTrace[2].text)
  /\ writes = <<>>

(***************************************************************************)
(* C8: the command 'banner motd #' sets the banner delimiter to '#' and    *)
(* enters banner mode; the command 'banner motd #hello#' never enters      *)
(* banner mode: the banner flag is false when the command is written and   *)
(* afterwards.                                                             *)
(***************************************************************************)
C8_BannerDetection ==
  /\ ( /\ trace # <<>>
       /\ CallName = "send"
       /\ command = Cmd_Banner
       /\ pc # <<"idle">> ) => banner = "#"
  /\ ( /\ trace # <<>>
       /\ CallName = "send"
       /\ command = Cmd_BannerClosed ) => banner = NoBanner

(***************************************************************************)
(* C11: a wait that runs out of time clears the prompt-matched flag: after *)
(* read_until or read_until_regex has returned through its timeout path,   *)
(* prompt_matched is false, even if it was true before the call.           *)
(***************************************************************************)
C11_TimeoutClearsPromptMatched ==
  (Returned("read_until", "timeout") \/ Returned("read_until_regex", "timeout"))
    => ~prompt_matched

(***************************************************************************)
(* C12: while the underlying transport raises on read and write, for the   *)
(* SSH and for the Telnet adapter alike, a read of update_buffer appends   *)
(* nothing to the text buffer, nothing is handed to the device, no         *)
(* exception reaches the caller of the session, and close() still drops    *)
(* the adapter.                                                            *)
(***************************************************************************)
C12_FaultsDegrade ==
  [][ fault =>
        /\ Head(pc) = "update_buffer" => data_buffer' = data_buffer
        /\ writes' = writes
        /\ result' # "EOFError"
        /\ ( /\ pc = <<"idle">>
             /\ plan # <<>>
             /\ Head(plan).name = "close"
             /\ plan' # plan ) => terminal' = "None" ]_vars

(***************************************************************************)
(* C13: once close() has run the session holds no adapter, the adapter's   *)
(* close was invoked once and not again, and no later call, connect()      *)
(* included, constructs a new adapter.                                     *)
(***************************************************************************)
C13_CloseIsTerminal ==
  closes >= 1 =>
    /\ terminal = "None"
    /\ closes = 1
    /\ opened = 1

ConnectStart ==
  CHOOSE k \in 1..Len(trace) :
    /\ trace[k] = Event("call", <<"connect">>, trace[k].t)
    /\ \A j \in (k + 1)..Len(trace) :
         trace[j] # Event("call", <<"connect">>, trace[j].t)

IsCall(e) == e.ev = "call"

\* the names of the methods called since, in order
ConnectCalls ==
  LET calls == SelectSeq(SubSeq(trace, ConnectStart + 1, Len(trace)), IsCall)
  IN [i \in 1..Len(calls) |-> calls[i].text[1]]

\* the texts written since
ConnectWrites == SubSeq(writes, trace[ConnectStart].t + 1, Len(writes))

\* connect() has just returned True
Connected == trace # <<>> /\ trace[Len(trace)].ev = "return"

\* connect() is running or has just returned
InConnect ==
  \/ Connected
  \/ \E i \in 1..Len(plan) : plan[i] = ConnectEnd

\* what connect() does after the calls in first: elevation and paging for cisco
ConnectSteps(first) ==
  /\ Connected =>
       /\ terminal = "adapter"
       /\ result = "True"
       /\ ConnectCalls = first \o (IF platform = "cisco"
                                   THEN <<"enable_privilege", "send">>
                                   ELSE <<>>)
       /\ platform = "cisco" =>
            /\ \E k \in 1..Len(ConnectWrites) :
                 ConnectWrites[k] = Written(enable_command)
            /\ ConnectWrites[Len(ConnectWrites)] = Written(disable_paging)
  /\ (InConnect /\ platform # "cisco") =>
       \A k \in 1..Len(ConnectWrites) :
         ConnectWrites[k] \notin {Written(enable_command), Written(disable_paging)}

C15_ConnectOrder_AsStated == ConnectSteps(<<"login">>)

(***************************************************************************)
(* C15 as amended: the same, except that login is called only when the     *)
(* protocol is telnet; for ssh the adapter's construction is followed      *)
(* directly by the platform's steps.                                       *)
(***************************************************************************)
C15_ConnectOrder ==
  ConnectSteps(IF protocol = "telnet" THEN <<"login">> ELSE <<>>)

\* a telnet session of platform cisco is connected: login, elevation, paging
C15_Witness ==
  /\ Connected
  /\ protocol = "telnet"
  /\ platform = "cisco"
  /\ ConnectCalls = <<"login", "enable_privilege", "send">>
  /\ Len(ConnectWrites) = 2

(***************************************************************************)
(* C16 as stated: whenever the tail of the buffer looks like a bare shell   *)
(* prompt during a drain, the budget of the drain is the minimal unit, so  *)
(* that the drain returns after one further empty read; otherwise it is    *)
(* the full retry budget.                                                  *)
(***************************************************************************)
\* a drain (update_buffer) is in progress
InDrain == Head(pc) = "update_buffer"

\* the empty reads made since the drain began or last received data
EmptyReads == this_delay \div read_delay - 1

\* the budget of the drain is the minimal unit: one more empty read ends it
Collapsed ==
  /\ max_delay = read_delay
  /\ EmptyReads <= 1
  /\ EmptyReads = 1 => ~LoopRuns(this_delay, max_delay)

FullBudget == max_delay = read_delay * retries

C16_EarlyExit_AsStated ==
  InDrain => IF early_exit(data_buffer) THEN Collapsed ELSE FullBudget

(***************************************************************************)
(* C16 as amended: the heuristic is tested when a read of the drain yields *)
(* data.  After such a read, a prompt-shaped tail collapses the budget to  *)
(* the minimal unit and the drain returns after one further empty read,    *)
(* and a tail that is not prompt-shaped restores the full retry budget.    *)
(* Until a read of the drain yields data the budget is the full one,       *)
(* whatever the tail of the buffer looks like.                             *)
(***************************************************************************)
C16_EarlyExit ==
  InDrain =>
    IF ub_result /\ early_exit(data_buffer) THEN Collapsed ELSE FullBudget

\* the buffer before the last read of the drain in progress
BeforeLastRead ==
  SubSeq(data_buffer, 1, Len(data_buffer) - Len(chunks[Len(chunks)]))

\* a drain collapsed its budget on a prompt-shaped tail, and the data of a
\* later read restored the full budget
C16_Witness ==
  /\ InDrain
  /\ retries > 1
  /\ Len(chunks) >= 2
  /\ early_exit(BeforeLastRead)
  /\ ~early_exit(data_buffer)
  /\ FullBudget

(***************************************************************************)
(* update_buffer(retries) on its own: one call, with every retry budget up *)
(* to MaxRetries, of a transport that is silent or produces one chunk at   *)
(* any moment of the drain.                                                *)
(***************************************************************************)
DrainScripts ==
  { <<>>,
    <<Reply(0, Txt_ShowOut)>>,
    <<Reply(0, Txt_UserPrompt)>> }

InitDrain ==
  /\ data_buffer = <<>>
  /\ last_regex_match = <<>>
  /\ prompt_matched = FALSE
  /\ banner = NoBanner
  /\ pending = <<>>
  /\ writes = <<>>
  /\ pc = <<"idle">>
  /\ command = <<>>
  /\ send_timeout = 0
  /\ send_result = <<>>
  /\ match = <<>>
  /\ timeout = 0
  /\ end_time = 0
  /\ this_delay = 0
  /\ max_delay = 0
  /\ ub_result = FALSE
  /\ output = <<>>
  /\ result = "none"
  /\ lines = <<>>
  /\ base = <<>>
  /\ chunks = <<>>
  /\ old_match = <<>>
  /\ trace = <<>>
  /\ late = FALSE
  /\ delivered = <<>>
  /\ plan = <<UpdateBuffer>>
  /\ script \in DrainScripts
  /\ protocol = "telnet"
  /\ platform = "cisco"
  /\ terminal = "adapter"
  /\ opened = 1
  /\ retries \in 0..MaxRetries
  /\ fault = FALSE
  /\ closes = 0

NextDrain ==
  \/ Deliver
  \/ UpdateBufferCall
  \/ UpdateBufferReceive
  \/ UpdateBufferEmpty
  \/ UpdateBufferReturn
  \/ ReturnReceived

SpecDrain == InitDrain /\ [][NextDrain]_vars

(***************************************************************************)
(* C17: update_buffer(retries) returns True exactly when a read of the     *)
(* call yielded data, and when its loop ends with a tail that did not      *)
(* collapse the budget, exactly `retries` empty reads were made in a row   *)
(* since the call began or last received data.                             *)
(***************************************************************************)
\* the loop of the drain has ended
DrainOver == InDrain /\ ~LoopRuns(this_delay, max_delay)

C17_DrainCountdown ==
  /\ Done("update_buffer") => (result = "True" <=> chunks # <<>>)
  /\ (DrainOver /\ ~(ub_result /\ early_exit(data_buffer))) =>
       EmptyReads = retries

\* the part of C17 that the code keeps: the returned flag, and a count of
\* empty reads that never exceeds the budget
C17_DrainFlagAndBound ==
  /\ Done("update_buffer") => (result = "True" <=> chunks # <<>>)
  /\ InDrain => EmptyReads <= retries

(***************************************************************************)
(* The loops of the session run: a pass of the drain loop or of a wait     *)
(* loop that can be made is made.  The loops are sequential code whose     *)
(* calls all return: the adapters' _read does not block (recv_ready,       *)
(* read_very_eager) and the sleeps are finite.  Nothing is assumed of the  *)
(* device or of the user of the session.                                   *)
(***************************************************************************)
\* a pass of the loop of update_buffer, or its end
DrainStep ==
  \/ UpdateBufferReceive
  \/ UpdateBufferEmpty
  \/ UpdateBufferReturn

\* a step of the loop of read_until or of read_until_regex, the outcome of
\* regex.search apart
WaitStep ==
  \/ ReadUntilWhile
  \/ ReadUntilExtend
  \/ ReadUntilMatch
  \/ ReadUntilSleep
  \/ ReadUntilTimeout
  \/ ReadUntilRegexWhile
  \/ ReadUntilRegexExtend
  \/ ReadUntilRegexTimeout

\* regex.search(self.data_buffer) is about to be evaluated; it finds a match
\* or finds none, so that one of the two steps of RegexDecision can be taken
RegexDecidable ==
  /\ Head(pc) = "read_until_regex_drained"
  /\ ~ub_result

RegexDecision ==
  \/ ReadUntilRegexMatch
  \/ ReadUntilRegexSleep

\* weak fairness of RegexDecision, with its enabling condition written out
RegexDecisionTaken ==
  []<>(~RegexDecidable) \/ []<><<RegexDecision>>_vars

FairSpec ==
  Spec /\ WF_vars(DrainStep) /\ WF_vars(WaitStep) /\ RegexDecisionTaken

(***************************************************************************)
(* C18: a wait (read_until, read_until_regex) whose pattern is not in the  *)
(* buffer, on a transport that has stopped producing data, eventually      *)
(* returns through its timeout path; and the time left until the deadline  *)
(* of a wait grows only when the wait begins (now + timeout) or when a     *)
(* drain of the wait has received data (now + timeout again).              *)
(***************************************************************************)
WaitLabels ==
  {"read_until", "read_until_drained",
   "read_until_regex", "read_until_regex_drained"}

\* a wait is in progress, and which
Waiting == \E i \in 1..Len(pc) : pc[i] \in WaitLabels
WaitingRegex ==
  \E i \in 1..Len(pc) : pc[i] \in {"read_until_regex", "read_until_regex_drained"}

\* the pattern of the wait in progress is in the buffer
PatternFound ==
  IF WaitingRegex
  THEN Search(match, data_buffer, TRUE).start # 0
  ELSE Find(data_buffer, match) # 0

\* the transport has stopped producing data
Quiet == ~Outstanding /\ ~fault

\* the last thing that happened: a wait returned through its timeout path
TimedOut == trace # <<>> /\ trace[Len(trace)] = TimeoutEvent

WaitTimesOut == (Waiting /\ Quiet /\ ~PatternFound) ~> TimedOut

\* while self.update_buffer(): end_time = time.time() + timeout
DeadlineExtended ==
  /\ Head(pc) \in {"read_until_drained", "read_until_regex_drained"}
  /\ ub_result
  /\ chunks # <<>>
  /\ end_time' = timeout

\* end_time = time.time() + timeout, before the loop
DeadlineSet ==
  /\ ~Waiting
  /\ Waiting'
  /\ end_time' = timeout'

DeadlineMovesOnData ==
  [][end_time' > end_time => (DeadlineSet \/ DeadlineExtended)]_vars

\* C18: a quiet wait without its pattern times out, and only the beginning of
\* a wait and the arrival of data move its deadline
C18_Deadline == WaitTimesOut /\ DeadlineMovesOnData

\* a wait had its deadline extended by data and then returned through its
\* timeout path, the transport being quiet
C18_Witness ==
  /\ TimedOut
  /\ chunks # <<>>
  /\ Quiet
  /\ ~fault

(***************************************************************************)
(* C19: once banner mode is entered the session stays in it, with the same *)
(* delimiter, until a send whose prompt wait reaches the prompt or whose   *)
(* command starts with the delimiter; it leaves banner mode at exactly     *)
(* those sends, when they return; and a prompt wait of a send made in      *)
(* banner mode runs with the shortened timeout.                            *)
(***************************************************************************)
\* banner mode is active
BannerMode == banner # NoBanner

\* _send_main is about to leave: its prompt wait has returned
SendReturns == Head(pc) = "send_prompt" /\ pc' = Tail(pc)

\* the send reached the prompt, or its command starts with the delimiter
ClosesBanner ==
  prompt_matched \/ StartsWith(LStrip(command), <<banner>>)

\* the prompt wait of a send is in progress
InPromptWait == \E i \in 1..Len(pc) : pc[i] = "send_prompt"

C19_BannerPersists ==
  /\ [][(BannerMode /\ banner' # banner) =>
          (SendReturns /\ ClosesBanner /\ banner' = NoBanner)]_vars
  /\ [][(BannerMode /\ SendReturns /\ ClosesBanner) => banner' = NoBanner]_vars
  /\ [](BannerMode /\ InPromptWait => timeout = banner_timeout)

(***************************************************************************)
(* C20: a login that returns normally after having written the password    *)
(* found the canonical prompt in its wait after the password: that wait    *)
(* did not time out.                                                       *)
(***************************************************************************)
\* login has written the password and has fallen off its end
LoginReturnedNormally ==
  /\ Done("login")
  /\ result = "None"
  /\ Len(CallTrace) = 8
  /\ CallTrace[6] = WriteEvent(Written(password))

C20_LoginNeedsPrompt ==
  LoginReturnedNormally =>
    /\ CallTrace[8].ev = "matched"
    /\ IsCanonicalPrompt(CallTrace[8].text)

\* the part of C20 that the code keeps: a login that returns normally has not
\* matched a login prompt or the failure phrase after the password
C20_LoginNoFailureSeen ==
  (LoginReturnedNormally /\ CallTrace[8].ev = "matched") =>
    IsCanonicalPrompt(CallTrace[8].text)

(***************************************************************************)
(* C21: enable_privilege, called on a session whose buffer is empty, never  *)
(* writes the password more often than the device presented password       *)
(* challenges since the call began, whatever the timing of the device's    *)
(* responses.                                                              *)
(***************************************************************************)
\* the writes of the password made by the call in progress (or the last one)
PasswordWrites ==
  {k \in 1..Len(CallWrites) : CallWrites[k] = Written(password)}

\* enable_privilege is the first call made on the session
FirstCallEnable ==
  /\ Working
  /\ trace # <<>>
  /\ LastCall = 1
  /\ CallName = "enable_privilege"

C21_PasswordPerChallenge ==
  FirstCallEnable => Cardinality(PasswordWrites) <= Cardinality(Challenges)

(***************************************************************************)
(* C22: the prompt wait of send('') is satisfied only by prompt text       *)
(* received after the newline was written.  The wait begins right after    *)
(* the write, so that text is what the wait itself read: the match begins  *)
(* after the text the buffer held when the wait began.                     *)
(***************************************************************************)
\* the prompt wait of send('') has just found the prompt
EmptySendMatched ==
  /\ Working
  /\ Head(pc) = "send_prompt"
  /\ command = <<>>
  /\ CallName = "send"
  /\ Returned("read_until_regex", "matched")

C22_PromptIsFresh == EmptySendMatched => Len(output) >= Len(base)

(***************************************************************************)
(* C23: enable_privilege returns True only if one of its waits matched a   *)
(* prompt ending in '#'; when every wait of the call timed out it returns  *)
(* False, whatever last_regex_match was before the call.                   *)
(***************************************************************************)
\* the matches found by the waits of the call in progress (or the last one)
CallMatches == {k \in 1..Len(CallTrace) : CallTrace[k].ev = "matched"}

C23_EnableNeedsMatch ==
  (Working /\ Done("enable_privilege")) =>
    /\ result = "True" =>
         \E k \in CallMatches : EndsPrivileged(CallTrace[k].text)
    /\ CallMatches = {} => result = "False"

(***************************************************************************)
(* C24: while the transport has failed, a read of update_buffer is not      *)
(* counted as received data: it adds nothing to the buffer, does not set   *)
(* the result of the drain and does not reset its countdown.               *)
(***************************************************************************)
C24_FailedReadIsNotData ==
  [][ (fault /\ InDrain) =>
        /\ data_buffer' = data_buffer
        /\ ub_result' => ub_result
        /\ InDrain' => this_delay' >= this_delay ]_vars

=============================================================================
